---- MODULE Spec2Model ----
(***************************************************************************)
(* Model of my_model_selectors.py: the four HMM model selectors            *)
(* (SelectorConstant, SelectorBIC, SelectorDIC, SelectorCV) and the        *)
(* shared trainer adapter ModelSelector.base_model.                        *)
(*                                                                         *)
(* One behaviour of the model is one select() call on one selector         *)
(* instance.  The external trainer (GaussianHMM.fit / .score) is opaque:   *)
(* whether a fit succeeds, whether a score call raises and which           *)
(* log-likelihood it returns are chosen nondeterministically; a fit with   *)
(* the same state count, data and seed repeats its earlier outcome.        *)
(***************************************************************************)
EXTENDS Integers, Sequences, FiniteSets, TLC

\* ---------------------------------------------------------------- bounds
MaxStates == 3      \* state counts of the search range lie in 1..MaxStates
MaxSeqs == 3        \* the word has 1..MaxSeqs observation sequences
MaxOthers == 2      \* the cross-word index has 0..MaxOthers other words

\* ------------------------------------------------------ program constants
n_iter == 1000
random_state == 14
default_n_constant == 3
n_splits == 2

VARIABLES
    selector,           \* which subclass select() is called on
    n_constant,         \* self.n_constant
    min_n_components,   \* self.min_n_components
    max_n_components,   \* self.max_n_components
    numSeqs,            \* len(self.sequences)
    numOthers,          \* number of words of self.hwords other than this_word
    selfX,              \* self.X, self.lengths: the sequence indices they hold
    pc,                 \* position inside select()
    it,                 \* 1-based position of the for loop in its range
    fold,               \* SelectorCV.cv_score: number of folds already done
    scores,             \* SelectorCV.cv_score: local list `scores`
    model,              \* SelectorCV.cv_score: local `model`
    best_score,         \* SelectorDIC/CV.select: local `best_score`
    best_model,         \* SelectorDIC/CV.select: local `best_model`
    score_bics,         \* SelectorBIC.select: local list `score_bics`
    cands,              \* history: one record per candidate that was scored
    trainLog,           \* history: one record per GaussianHMM(...).fit call
    result              \* what select() returned (or raised)

vars == <<selector, n_constant, min_n_components, max_n_components, numSeqs,
          numOthers, selfX, pc, it, fold, scores, model, best_score,
          best_model, score_bics, cands, trainLog, result>>

\* ------------------------------------------------ Python floats (IEEE 754)
\* A float is a rational num/den (den > 0), +inf, -inf or nan.
Fin(n, d) == [k |-> "fin", num |-> n, den |-> d]
NaN == [k |-> "nan", num |-> 0, den |-> 1]
PosInf == [k |-> "pinf", num |-> 0, den |-> 1]
NegInf == [k |-> "ninf", num |-> 0, den |-> 1]

FNeg(a) ==
    CASE a.k = "fin" -> Fin(-a.num, a.den)
      [] a.k = "pinf" -> NegInf
      [] a.k = "ninf" -> PosInf
      [] OTHER -> NaN

FAdd(a, b) ==
    IF a.k = "nan" \/ b.k = "nan" THEN NaN
    ELSE IF a.k = "fin" /\ b.k = "fin"
         THEN Fin(a.num * b.den + b.num * a.den, a.den * b.den)
    ELSE IF a.k = "fin" THEN b
    ELSE IF b.k = "fin" THEN a
    ELSE IF a.k = b.k THEN a
    ELSE NaN

FSub(a, b) == FAdd(a, FNeg(b))

\* c * a for a non-zero integer c
FScale(c, a) ==
    CASE a.k = "fin" -> Fin(c * a.num, a.den)
      [] a.k = "nan" -> NaN
      [] OTHER -> IF c > 0 THEN a ELSE FNeg(a)

\* a / m for a positive integer m
FDivInt(a, m) == IF a.k = "fin" THEN Fin(a.num, a.den * m) ELSE a

\* a < b; every comparison with nan is False
FLess(a, b) ==
    IF a.k = "nan" \/ b.k = "nan" THEN FALSE
    ELSE IF a.k = "ninf" THEN b.k # "ninf"
    ELSE IF a.k = "pinf" THEN FALSE
    ELSE IF b.k = "pinf" THEN TRUE
    ELSE IF b.k = "ninf" THEN FALSE
    ELSE a.num * b.den < b.num * a.den

FGreater(a, b) == FLess(b, a)

RECURSIVE FSum(_)
FSum(s) == IF Len(s) = 0 THEN Fin(0, 1) ELSE FAdd(Head(s), FSum(Tail(s)))

\* np.mean: nan (with a RuntimeWarning, no exception) on an empty list
np_mean(s) == IF Len(s) = 0 THEN NaN ELSE FDivInt(FSum(s), Len(s))

\* np.log(N) for a positive integer N, to three decimals
LnMilli == <<0, 693, 1098, 1386, 1609, 1791, 1945, 2079, 2197, 2302,
             2397, 2484, 2564, 2639, 2708, 2772>>
np_log(N) == Fin(LnMilli[N], 1000)

\* ------------------------------------------------------------ the data
\* Observation data is identified by the tuple of (0-based) indices of the
\* word's sequences it concatenates.
range(a, b) == [j \in 1..(IF b > a THEN b - a ELSE 0) |-> a + j - 1]

\* all_word_Xlengths[this_word]: every sequence of the word
FullX == range(0, numSeqs)

\* number of frames of sequence i
FramesOf(i) == 1 + (i % 2)

lengths(X) == [j \in 1..Len(X) |-> FramesOf(X[j])]

RECURSIVE sum(_)
sum(s) == IF Len(s) = 0 THEN 0 ELSE Head(s) + sum(Tail(s))

\* sklearn KFold(n_splits).split without shuffling: the first
\* n_samples % n_splits folds hold n_samples // n_splits + 1 samples
KFoldStart(f, m) ==
    f * (m \div n_splits) + (IF f < m % n_splits THEN f ELSE m % n_splits)

KFoldTest(f, m) == range(KFoldStart(f, m), KFoldStart(f + 1, m))

\* variant: the held-out fold is not removed from the training indices
KFoldTrain_all(f, m) == range(0, m)

KFoldTrain(f, m) ==
    range(0, KFoldStart(f, m)) \o range(KFoldStart(f + 1, m), m)

\* asl_utils.combine_sequences(idx, sequences): the sequences at idx
combine_sequences(idx) == idx

\* ------------------------------------------------------------ the trainer
hyperparameters ==
    [covariance_type |-> "diag", n_iter |-> n_iter, random_state |-> random_state]

None == [kind |-> "None", n |-> 0, X |-> <<>>]
Raised == [kind |-> "raised", n |-> 0, X |-> <<>>]
Pending == [kind |-> "pending", n |-> 0, X |-> <<>>]
Fitted(n, X) == [kind |-> "model", n |-> n, X |-> X]

\* Outcomes of GaussianHMM(n, seed).fit(X, lengths): seeded, so a repeated fit
\* of the same state count on the same data ends as it did before.
FitChoices(n, X) ==
    LET prev == {i \in DOMAIN trainLog : trainLog[i].n = n /\ trainLog[i].X = X}
    IN  IF prev = {} THEN BOOLEAN
        ELSE {trainLog[CHOOSE i \in prev : TRUE].ok}

\* variant: no try/except around fit, its exception reaches the caller
base_model_propagates(num_states, X, fit_ok) ==
    IF fit_ok THEN Fitted(num_states, X) ELSE Raised

\* base_model(num_states): the fitted model, or None when fit raised
\* (X is the value of self.X, self.lengths at the call)
base_model(num_states, X, fit_ok) ==
    IF fit_ok THEN Fitted(num_states, X) ELSE None

\* the record of one fit call; heldout is the data the call's model is then
\* scored on when that is not the training data itself (cv_score's test fold)
TrainCall(num_states, X, heldout, fit_ok, site) ==
    [n |-> num_states, X |-> X, lengths |-> lengths(X), heldout |-> heldout,
     hyper |-> hyperparameters, ok |-> fit_ok, site |-> site]

\* model.score(X, lengths): a log-likelihood (a finite value or -inf), or
\* "raise"
FiniteLogLs == {-2, -1}
LogLs == {Fin(v, 1) : v \in FiniteLogLs} \cup {NegInf}
ScoreRaises == [k |-> "raise", num |-> 0, den |-> 1]
ScoreOutcomes == LogLs \cup {ScoreRaises}

\* variant: range(min, max) leaves max_n_components out
SearchRange_exclusive == range(min_n_components, max_n_components)

\* the for loop of the three searching selectors
SearchRange == range(min_n_components, max_n_components + 1)

config == <<selector, n_constant, min_n_components, max_n_components, numSeqs,
            numOthers>>

\* -------------------------------------------------------------------- Init
\* The constructor's arguments.  n_constant is below, inside (the default)
\* or above the search range; an input the selector never reads is held at
\* one value: the number of other words outside SelectorDIC, the number of
\* sequences in SelectorConstant and SelectorDIC (they use self.X whole).
Init ==
    /\ selector \in {"Constant", "BIC", "DIC", "CV"}
    /\ n_constant \in {1, default_n_constant, MaxStates + 1}
    /\ min_n_components \in 1..MaxStates
    /\ max_n_components \in 1..MaxStates
    /\ numSeqs \in IF selector \in {"BIC", "CV"} THEN 1..MaxSeqs ELSE {MaxSeqs}
    /\ numOthers \in IF selector = "DIC" THEN 0..MaxOthers ELSE {MaxOthers}
    /\ selfX = range(0, numSeqs)
    /\ pc = "select"
    /\ it = 1
    /\ fold = 0
    /\ scores = <<>>
    /\ model = None
    /\ best_score = NaN
    /\ best_model = None
    /\ score_bics = <<>>
    /\ cands = <<>>
    /\ trainLog = <<>>
    /\ result = Pending

\* ------------------------------------------------------- SelectorConstant
\* variant: n_constant is clamped into the search range first
ConstantSelect_clamped ==
    /\ pc = "select" /\ selector = "Constant"
    /\ LET n == IF n_constant < min_n_components THEN min_n_components
                ELSE IF n_constant > max_n_components THEN max_n_components
                ELSE n_constant
       IN  \E ok \in FitChoices(n, selfX) :
              /\ trainLog' = Append(trainLog, TrainCall(n, selfX, <<>>, ok, "constant"))
              /\ result' = base_model(n, selfX, ok)
    /\ pc' = "done"
    /\ UNCHANGED <<config, selfX, it, fold, scores, model, best_score,
                   best_model, score_bics, cands>>

\* select(): return self.base_model(self.n_constant)
ConstantSelect ==
    /\ pc = "select" /\ selector = "Constant"
    /\ \E ok \in FitChoices(n_constant, selfX) :
          /\ trainLog' = Append(trainLog, TrainCall(n_constant, selfX, <<>>, ok, "constant"))
          /\ result' = base_model(n_constant, selfX, ok)
    /\ pc' = "done"
    /\ UNCHANGED <<config, selfX, it, fold, scores, model, best_score,
                   best_model, score_bics, cands>>

\* ------------------------------------------------------------ SelectorBIC
calc_deg_lib(num_states, num_data_points) ==
    (num_states * num_states) + (2 * num_states * num_data_points) - 1

calc_score(log_likelihood, num_free_params, num_data_points) ==
    FAdd(FScale(-2, log_likelihood),
         FScale(num_free_params, np_log(num_data_points)))

\* min(score_bics, key = lambda x: x[0]): the first entry no later entry is
\* strictly less than
RECURSIVE MinFrom(_, _, _)
MinFrom(s, best, i) ==
    IF i > Len(s) THEN s[best]
    ELSE MinFrom(s, IF FLess(s[i][1], s[best][1]) THEN i ELSE best, i + 1)

\* variant: max instead of min
RECURSIVE MaxFrom(_, _, _)
MaxFrom(s, best, i) ==
    IF i > Len(s) THEN s[best]
    ELSE MaxFrom(s, IF FGreater(s[i][1], s[best][1]) THEN i ELSE best, i + 1)

calc_best_score_bic_max(s) == MaxFrom(s, 1, 2)

calc_best_score_bic(s) == MinFrom(s, 1, 2)

BICEnter ==
    /\ pc = "select" /\ selector = "BIC"
    /\ score_bics' = <<>>
    /\ it' = 1
    /\ pc' = "bic"
    /\ UNCHANGED <<config, selfX, fold, scores, model, best_score, best_model,
                   cands, trainLog, result>>

\* one pass of the loop body in which nothing raises
BICScored ==
    /\ pc = "bic" /\ it <= Len(SearchRange)
    /\ LET num_states == SearchRange[it] IN
       \E ok \in FitChoices(num_states, selfX), ll \in LogLs :
          LET hmm_model == base_model(num_states, selfX, ok)
              num_data_points == sum(lengths(selfX))
              num_free_params == calc_deg_lib(num_states, num_data_points)
              score_bic == calc_score(ll, num_free_params, num_data_points)
          IN  /\ hmm_model.kind = "model"
              /\ trainLog' = Append(trainLog, TrainCall(num_states, selfX, <<>>, ok, "bic"))
              /\ score_bics' = Append(score_bics, <<score_bic, hmm_model>>)
              /\ cands' = Append(cands, [n |-> num_states, score |-> score_bic,
                                         model |-> hmm_model])
    /\ it' = it + 1
    /\ UNCHANGED <<config, selfX, pc, fold, scores, model, best_score,
                   best_model, result>>

\* one pass of the loop body that raises (None.score, or score itself):
\* except: pass
BICSkipped ==
    /\ pc = "bic" /\ it <= Len(SearchRange)
    /\ LET num_states == SearchRange[it] IN
       \E ok \in FitChoices(num_states, selfX), ll \in ScoreOutcomes :
          LET hmm_model == base_model(num_states, selfX, ok)
          IN  /\ hmm_model.kind # "model" \/ ll = ScoreRaises
              /\ hmm_model.kind # "model" => ll = ScoreRaises
              /\ trainLog' = Append(trainLog, TrainCall(num_states, selfX, <<>>, ok, "bic"))
    /\ it' = it + 1
    /\ UNCHANGED <<config, selfX, pc, fold, scores, model, best_score,
                   best_model, score_bics, cands, result>>

BICReturn ==
    /\ pc = "bic" /\ it > Len(SearchRange)
    /\ result' = IF score_bics # <<>> THEN calc_best_score_bic(score_bics)[2]
                 ELSE None
    /\ pc' = "done"
    /\ UNCHANGED <<config, selfX, it, fold, scores, model, best_score,
                   best_model, score_bics, cands, trainLog>>

\* ------------------------------------------------------------ SelectorDIC
\* model.score(self.X, self.lengths) - np.mean(scores)
dic_value(own, others) == FSub(own, np_mean(others))

\* if score > best_score
dic_improves(score, best) == FGreater(score, best)

DICEnter ==
    /\ pc = "select" /\ selector = "DIC"
    /\ best_score' = NegInf
    /\ best_model' = None
    /\ it' = 1
    /\ pc' = "dic"
    /\ UNCHANGED <<config, selfX, fold, scores, model, score_bics, cands,
                   trainLog, result>>

\* one pass of the loop: dic_score(n) returns, then the comparison
DICScored ==
    /\ pc = "dic" /\ it <= Len(SearchRange)
    /\ LET n == SearchRange[it] IN
       \E ok \in FitChoices(n, selfX), own \in LogLs,
          others \in [1..numOthers -> LogLs] :
          LET m == base_model(n, selfX, ok)
              score == dic_value(own, others)
          IN  /\ m.kind = "model"
              /\ trainLog' = Append(trainLog, TrainCall(n, selfX, <<>>, ok, "dic"))
              /\ cands' = Append(cands, [n |-> n, score |-> score, model |-> m])
              /\ IF dic_improves(score, best_score)
                 THEN best_score' = score /\ best_model' = m
                 ELSE UNCHANGED <<best_score, best_model>>
    /\ it' = it + 1
    /\ UNCHANGED <<config, selfX, pc, fold, scores, model, score_bics, result>>

\* variant: the failure is skipped as in SelectorBIC and the search goes on
DICFailed_skip ==
    /\ pc = "dic" /\ it <= Len(SearchRange)
    /\ LET n == SearchRange[it] IN
       \E ok \in FitChoices(n, selfX), raises \in BOOLEAN :
          LET m == base_model(n, selfX, ok)
          IN  /\ m.kind # "model" \/ raises
              /\ trainLog' = Append(trainLog, TrainCall(n, selfX, <<>>, ok, "dic"))
    /\ it' = it + 1
    /\ UNCHANGED <<config, selfX, pc, fold, scores, model, best_score,
                   best_model, score_bics, cands, result>>

\* one pass of the loop in which dic_score(n) raises (None.score, or a score
\* call on this word or on another word): control goes to the except clause
DICFailed ==
    /\ pc = "dic" /\ it <= Len(SearchRange)
    /\ LET n == SearchRange[it] IN
       \E ok \in FitChoices(n, selfX), raises \in BOOLEAN :
          LET m == base_model(n, selfX, ok)
          IN  /\ m.kind # "model" \/ raises
              /\ trainLog' = Append(trainLog, TrainCall(n, selfX, <<>>, ok, "dic"))
    /\ pc' = "dic_except"
    /\ UNCHANGED <<config, selfX, it, fold, scores, model, best_score,
                   best_model, score_bics, cands, result>>

DICReturn ==
    /\ pc = "dic" /\ it > Len(SearchRange)
    /\ result' = best_model
    /\ pc' = "done"
    /\ UNCHANGED <<config, selfX, it, fold, scores, model, best_score,
                   best_model, score_bics, cands, trainLog>>

\* except: return self.base_model(self.n_constant)
DICExcept ==
    /\ pc = "dic_except"
    /\ \E ok \in FitChoices(n_constant, selfX) :
          /\ trainLog' = Append(trainLog, TrainCall(n_constant, selfX, <<>>, ok, "fallback"))
          /\ result' = base_model(n_constant, selfX, ok)
    /\ pc' = "done"
    /\ UNCHANGED <<config, selfX, it, fold, scores, model, best_score,
                   best_model, score_bics, cands>>

\* ------------------------------------------------------------- SelectorCV
\* variant: <= instead of <
cv_improves_le(score, best) == FLess(score, best) \/ ~FLess(best, score)

\* if score < best_score
cv_improves(score, best) == FLess(score, best)

CVEnter ==
    /\ pc = "select" /\ selector = "CV"
    /\ best_score' = PosInf
    /\ best_model' = None
    /\ it' = 1
    /\ fold' = 0
    /\ scores' = <<>>
    /\ pc' = "cv"
    /\ UNCHANGED <<config, selfX, model, score_bics, cands, trainLog, result>>

\* cv_score(n): split_method.split(self.sequences) raises ValueError when the
\* word has fewer sequences than n_splits
CVSplitFails ==
    /\ pc = "cv" /\ it <= Len(SearchRange)
    /\ fold = 0 /\ numSeqs < n_splits
    /\ pc' = "cv_except"
    /\ UNCHANGED <<config, selfX, it, fold, scores, model, best_score,
                   best_model, score_bics, cands, trainLog, result>>

\* cv_score(n): one pass of the fold loop in which nothing raises (the first
\* pass starts from the empty list `scores` of line 156)
CVFoldScored ==
    /\ pc = "cv" /\ it <= Len(SearchRange)
    /\ fold < n_splits /\ numSeqs >= n_splits
    /\ LET n == SearchRange[it]
           trainX == combine_sequences(KFoldTrain(fold, numSeqs))
           testX == combine_sequences(KFoldTest(fold, numSeqs))
       IN  \E ok \in FitChoices(n, trainX), ll \in LogLs :
              LET m == base_model(n, trainX, ok)
              IN  /\ m.kind = "model"
                  /\ selfX' = trainX
                  /\ trainLog' = Append(trainLog, TrainCall(n, trainX, testX, ok, "cv"))
                  /\ model' = m
                  /\ scores' = IF fold = 0 THEN <<ll>> ELSE Append(scores, ll)
    /\ fold' = fold + 1
    /\ UNCHANGED <<config, pc, it, best_score, best_model, score_bics, cands,
                   result>>

\* cv_score(n): one pass of the fold loop that raises (None.score, or score)
CVFoldFailed ==
    /\ pc = "cv" /\ it <= Len(SearchRange)
    /\ fold < n_splits /\ numSeqs >= n_splits
    /\ LET n == SearchRange[it]
           trainX == combine_sequences(KFoldTrain(fold, numSeqs))
           testX == combine_sequences(KFoldTest(fold, numSeqs))
       IN  \E ok \in FitChoices(n, trainX), raises \in BOOLEAN :
              LET m == base_model(n, trainX, ok)
              IN  /\ m.kind # "model" \/ raises
                  /\ selfX' = trainX
                  /\ trainLog' = Append(trainLog, TrainCall(n, trainX, testX, ok, "cv"))
                  /\ model' = m
    /\ pc' = "cv_except"
    /\ UNCHANGED <<config, it, fold, scores, best_score, best_model,
                   score_bics, cands, result>>

\* cv_score(n) returns np.mean(scores), model; then the comparison of select()
CVCandidate ==
    /\ pc = "cv" /\ it <= Len(SearchRange)
    /\ fold = n_splits
    /\ LET n == SearchRange[it]
           score == np_mean(scores)
       IN  /\ cands' = Append(cands, [n |-> n, score |-> score, model |-> model])
           /\ IF cv_improves(score, best_score)
              THEN best_score' = score /\ best_model' = model
              ELSE UNCHANGED <<best_score, best_model>>
    /\ it' = it + 1
    /\ fold' = 0
    /\ UNCHANGED <<config, selfX, pc, scores, model, score_bics, trainLog,
                   result>>

CVReturn ==
    /\ pc = "cv" /\ it > Len(SearchRange)
    /\ result' = best_model
    /\ pc' = "done"
    /\ UNCHANGED <<config, selfX, it, fold, scores, model, best_score,
                   best_model, score_bics, cands, trainLog>>

\* except: return self.base_model(self.n_constant)
CVExcept ==
    /\ pc = "cv_except"
    /\ \E ok \in FitChoices(n_constant, selfX) :
          /\ trainLog' = Append(trainLog, TrainCall(n_constant, selfX, <<>>, ok, "fallback"))
          /\ result' = base_model(n_constant, selfX, ok)
    /\ pc' = "done"
    /\ UNCHANGED <<config, selfX, it, fold, scores, model, best_score,
                   best_model, score_bics, cands>>

\* -------------------------------------------------------------------- Next
Next ==
    \/ ConstantSelect
    \/ BICEnter \/ BICSkipped \/ BICScored \/ BICReturn
    \/ DICEnter \/ DICFailed \/ DICScored \/ DICReturn \/ DICExcept
    \/ CVEnter \/ CVSplitFails \/ CVFoldFailed \/ CVFoldScored \/ CVCandidate
    \/ CVReturn \/ CVExcept

Spec == Init /\ [][Next]_vars

\* ================================================================ claims
Done == pc = "done"
Last(s) == s[Len(s)]

\* number of state counts in [min_n_components, max_n_components]
RangeSize ==
    IF max_n_components >= min_n_components
    THEN max_n_components - min_n_components + 1 ELSE 0

\* what SelectorConstant.select() returns for this word and configuration:
\* base_model(n_constant) on the word's full data
ConstantOutputs ==
    {base_model(n_constant, FullX, ok) : ok \in FitChoices(n_constant, FullX)}

\* C1: SelectorBIC.select() skips a failed candidate and goes on to the next
\* state count, returns a model no successful candidate has a lower BIC
\* score than, returns None exactly when no candidate succeeded, and never
\* trains the n_constant fallback.
BICReturnsMinimum ==
    (selector = "BIC" /\ Done) =>
        /\ Len(trainLog) = RangeSize
        /\ \A i \in DOMAIN trainLog : trainLog[i].site = "bic"
        /\ \A i \in DOMAIN cands :
              \E j \in DOMAIN trainLog :
                  trainLog[j].n = cands[i].n /\ trainLog[j].ok
        /\ (result = None) <=> (cands = <<>>)
        /\ cands # <<>> =>
              \E i \in DOMAIN cands :
                  /\ result = cands[i].model
                  /\ \A j \in DOMAIN cands :
                        ~FLess(cands[j].score, cands[i].score)

\* C1 witness: three candidates, the middle one failed, and the last one has
\* the lower BIC score of the two that succeeded and is returned.
BICReturnsMinimumWitness ==
    /\ selector = "BIC" /\ Done
    /\ Len(trainLog) = 3 /\ ~trainLog[2].ok
    /\ Len(cands) = 2
    /\ FLess(cands[2].score, cands[1].score)
    /\ result = cands[2].model

\* C2: when a candidate of SelectorDIC.select() fails, the search stops at
\* that candidate, no later candidate is trained, and the call returns what
\* SelectorConstant.select() returns: base_model(n_constant) on the word's
\* full data.
DICFallbackIsConstant ==
    (selector = "DIC" /\ Done /\ Len(cands) < RangeSize) =>
        LET fb == Last(trainLog) IN
        /\ Len(trainLog) = Len(cands) + 2
        /\ \A i \in 1..(Len(cands) + 1) :
              /\ trainLog[i].n = min_n_components + i - 1
              /\ trainLog[i].site = "dic"
        /\ fb.site = "fallback"
        /\ fb.n = n_constant
        /\ fb.X = FullX /\ fb.lengths = lengths(FullX)
        /\ fb.hyper = hyperparameters
        /\ result = IF fb.ok THEN Fitted(n_constant, FullX) ELSE None
        /\ ConstantOutputs = {result}

\* C2 witness: a candidate after the first one failed while a best-so-far
\* model existed, and the fallback model was returned in its place.
DICFallbackIsConstantWitness ==
    /\ selector = "DIC" /\ Done
    /\ Len(cands) >= 1 /\ Len(cands) < RangeSize
    /\ best_model.kind = "model"
    /\ result.kind = "model"
    /\ result # best_model

\* C3: when every candidate training of SelectorCV.select() fails, the call
\* returns the Constant strategy's output: n_constant states trained on the
\* word's full X and lengths.
CVFallbackIsConstant ==
    (/\ selector = "CV" /\ Done
     /\ min_n_components <= max_n_components
     /\ cands = <<>>
     /\ \A i \in DOMAIN trainLog : trainLog[i].site = "cv" => ~trainLog[i].ok) =>
        result \in ConstantOutputs

\* C4: SelectorDIC and SelectorCV with min_n_components <= max_n_components
\* return None only if the fallback training at n_constant failed.
NoneOnlyIfFallbackFails ==
    (/\ selector \in {"DIC", "CV"} /\ Done
     /\ min_n_components <= max_n_components
     /\ result = None) =>
        /\ trainLog # <<>>
        /\ Last(trainLog).site = "fallback"
        /\ ~Last(trainLog).ok

\* an upper bound on the number of steps select() still has to take
StepsLeft ==
    CASE pc = "done" -> 0
      [] pc \in {"dic_except", "cv_except"} -> 1
      [] pc \in {"bic", "dic"} -> (Len(SearchRange) + 1 - it) + 2
      [] pc = "cv" -> n_splits * (Len(SearchRange) + 1 - it)
                      + (Len(SearchRange) + 1 - it) - fold + 2
      [] OTHER -> (n_splits + 1) * Len(SearchRange) + 3

\* C5: every select() call terminates (it is never stuck before its return,
\* and every step brings the return nearer) and returns a fitted model or
\* None; no failure reaches the caller as a raised error.
SelectIsTotal ==
    /\ [](pc # "done" => ENABLED Next)
    /\ [](StepsLeft >= 0)
    /\ [][StepsLeft' < StepsLeft]_vars
    /\ [](pc = "done" => result.kind \in {"model", "None"})

\* C5 witness: the search aborted and the fallback training failed too, and
\* the call still returned (None).
SelectIsTotalWitness ==
    /\ Done /\ selector \in {"DIC", "CV"}
    /\ Len(trainLog) >= 2
    /\ Last(trainLog).site = "fallback" /\ ~Last(trainLog).ok
    /\ result = None

\* C6 as stated: every two training calls of one select() are made with the
\* same observation data, lengths and hyperparameters.
SameDataInEveryCall ==
    \A i, j \in DOMAIN trainLog :
        /\ trainLog[i].X = trainLog[j].X
        /\ trainLog[i].lengths = trainLog[j].lengths
        /\ trainLog[i].hyper = trainLog[j].hyper

\* C6 as amended: every training call uses the same hyperparameters; in
\* Constant, BIC and DIC every call, the fallback included, trains on the
\* word's full data; in CV the candidate calls of a fold train on that fold's
\* training subset, the same for every state count and never the full data.
TrainingDataDiscipline ==
    /\ \A i \in DOMAIN trainLog : trainLog[i].hyper = hyperparameters
    /\ selector # "CV" =>
          \A i \in DOMAIN trainLog :
              trainLog[i].X = FullX /\ trainLog[i].lengths = lengths(FullX)
    /\ selector = "CV" =>
          \A i, j \in DOMAIN trainLog :
              (trainLog[i].site = "cv" /\ trainLog[j].site = "cv") =>
                  /\ trainLog[i].X # FullX
                  /\ (i - j) % n_splits = 0 => trainLog[i].X = trainLog[j].X
                  /\ (i - j) % n_splits # 0 => trainLog[i].X # trainLog[j].X

\* C6 witness: a CV search that trained two candidates on both folds, and
\* then fell back.
TrainingDataDisciplineWitness ==
    /\ selector = "CV" /\ Done
    /\ Len(trainLog) >= 5
    /\ trainLog[1].X = trainLog[3].X
    /\ trainLog[1].X # trainLog[2].X
    /\ trainLog[1].n # trainLog[3].n

\* C7: SelectorConstant.select() makes exactly one training call, at
\* n_constant states, and returns its result, whatever the search range is.
ConstantTrainsOnce ==
    /\ (selector = "Constant" /\ ~Done) => trainLog = <<>>
    /\ (selector = "Constant" /\ Done) =>
          /\ Len(trainLog) = 1
          /\ trainLog[1].n = n_constant
          /\ result = IF trainLog[1].ok THEN Fitted(n_constant, FullX) ELSE None

\* C7 witness: n_constant lies outside the search range and the model with
\* n_constant states is returned.
ConstantTrainsOnceWitness ==
    /\ selector = "Constant" /\ Done
    /\ min_n_components <= max_n_components
    /\ n_constant > max_n_components
    /\ result = Fitted(n_constant, FullX)

\* C8: with min_n_components <= max_n_components, SelectorBIC.select()
\* trains the state counts min..max once each in ascending order and no
\* other state count, whether or not candidates fail.
BICVisitsRangeOnce ==
    (selector = "BIC" /\ min_n_components <= max_n_components) =>
        /\ \A i \in DOMAIN trainLog :
              trainLog[i].n = min_n_components + i - 1
        /\ Len(trainLog) <= RangeSize
        /\ Done => Len(trainLog) = RangeSize

\* C8 witness: the whole range of three state counts was trained although
\* the first and the last candidate failed.
BICVisitsRangeOnceWitness ==
    /\ selector = "BIC" /\ Done
    /\ Len(trainLog) = 3
    /\ ~trainLog[1].ok /\ trainLog[2].ok /\ ~trainLog[3].ok
    /\ trainLog[3].n = max_n_components

\* C9: when no candidate fails, SelectorDIC.select() returns the model with
\* the maximum DIC score over the range, the lowest state count among ties.
DICReturnsMaximum ==
    (/\ selector = "DIC" /\ Done
     /\ min_n_components <= max_n_components
     /\ Len(cands) = RangeSize) =>
        \E i \in DOMAIN cands :
            /\ result = cands[i].model
            /\ \A j \in DOMAIN cands : ~FGreater(cands[j].score, cands[i].score)
            /\ \A j \in 1..(i - 1) : FLess(cands[j].score, cands[i].score)

\* C10: when no candidate fails, SelectorCV.select() trains two folds per
\* state count, scores a candidate by the mean of its two fold scores, and
\* returns the model of the last fold of the candidate with the minimum
\* mean, the lowest state count among ties.
CVReturnsMinimum ==
    /\ (selector = "CV" /\ pc = "cv" /\ fold = 0 /\ cands # <<>>) =>
          /\ Len(scores) = 2
          /\ Last(cands).score = FDivInt(FAdd(scores[1], scores[2]), 2)
          /\ Len(trainLog) = 2 * Len(cands)
    /\ (/\ selector = "CV" /\ Done
        /\ min_n_components <= max_n_components
        /\ Len(cands) = RangeSize) =>
          /\ Len(trainLog) = 2 * RangeSize
          /\ \A c \in DOMAIN trainLog :
                LET trained == {trainLog[c].X[k] : k \in DOMAIN trainLog[c].X}
                    held == {trainLog[c].heldout[k] : k \in DOMAIN trainLog[c].heldout}
                IN  /\ trainLog[c].ok
                    /\ held # {} /\ trained \cap held = {}
                    /\ trained \cup held = 0..(numSeqs - 1)
          /\ \A i \in DOMAIN cands :
                /\ cands[i].n = min_n_components + i - 1
                /\ trainLog[2 * i - 1].n = cands[i].n
                /\ trainLog[2 * i].n = cands[i].n
                /\ cands[i].model = Fitted(cands[i].n, trainLog[2 * i].X)
          /\ \E i \in DOMAIN cands :
                /\ result = cands[i].model
                /\ \A j \in DOMAIN cands :
                      ~FLess(cands[j].score, cands[i].score)
                /\ \A j \in 1..(i - 1) : FLess(cands[i].score, cands[j].score)

\* C10 witness: three candidates, the first two tie on the minimum mean, and
\* the first one's second-fold model is returned.
CVReturnsMinimumWitness ==
    /\ selector = "CV" /\ Done
    /\ Len(cands) = 3
    /\ ~FLess(cands[1].score, cands[2].score)
    /\ ~FLess(cands[2].score, cands[1].score)
    /\ FLess(cands[1].score, cands[3].score)
    /\ result = cands[1].model
    /\ result.X = trainLog[2].X
    /\ result.X # trainLog[1].X

====
